---- MODULE Spec2Model ----
(***************************************************************************)
(* django-image-lite: the filter registry (registry.py), reform generation *)
(* on save (models.py) and in bulk (reform_create.py), reform deletion     *)
(* (models.py) and reform lookup (img_tags.py).                            *)
(*                                                                         *)
(* File names are kept as the sequence of their dot-separated parts        *)
(* (<<"sunset","v2","jpg">> is "sunset.v2.jpg"), so that pathlib's stem is *)
(* computed and not assumed; a finished path is rendered to one string.    *)
(***************************************************************************)
EXTENDS Integers, Sequences, FiniteSets, TLC

VARIABLES
    registry,   \* ClassByModuleRegistry._registry: app name -> list of classes
    regLast,    \* the last register call: its argument, the list before, its outcome
    records,    \* the rows of the image model, in primary-key order (src.name each)
    allow,      \* AbstractImage.filters, the allow-list of filter names
    dirs,       \* the directories that exist under the media root
    files,      \* the reform files that exist: path -> content
    last,       \* the last operation on reforms: what it wrote and how it ended
    blobs,      \* the originals in storage (src.name each)
    auto,       \* AbstractImage.auto_delete_upload_file
    txn,        \* the database transaction: open or not, and its on_commit hooks
    pillow,     \* the image a transform was last applied to, and the result
    race        \* two generation runs on one target path, step by step

vars == <<registry, regLast, records, allow, dirs, files, last,
          blobs, auto, txn, pillow, race>>

\* The variables the transform library and the stepwise runs work on.
opsVars == <<pillow, race>>

----------------------------------------------------------------------------
(* Bounds *)

\* Most image rows held at once, and most rows deleted in one transaction.
MaxRecords == 2
\* Longest iterable handed to one register call.
MaxIterable == 2

----------------------------------------------------------------------------
(* The classes of the running project *)

T1 == "site.image_filters.Thumbnail"
W1 == "site.image_filters.Watermark"
T2 == "site.legacy.Thumbnail"
N1 == "news.image_filters.Thumbnail"
H1 == "site.image_filters.Helper"

Classes == {T1, W1, T2, N1, H1}

\* klass.__name__
ClassName(k) ==
    CASE k = T1 -> "Thumbnail"
      [] k = W1 -> "Watermark"
      [] k = T2 -> "Thumbnail"
      [] k = N1 -> "Thumbnail"
      [] k = H1 -> "Helper"

\* utils.app_name(klass): the app (namespace) a class belongs to
AppName(k) == IF k = N1 THEN "news" ELSE "site"

\* issubclass(filter_class, Filter)
IsFilter(k) == k # H1

\* filter_class.format
Format(k) == IF k = W1 THEN "png" ELSE "jpg"

\* Filter.name(): defaults from the type name
Name(k) == ClassName(k)

\* Filter.classname_as_path_segment(): the name, filesystem-safe
ClassnameAsPathSegment(k) ==
    CASE ClassName(k) = "Thumbnail" -> "thumbnail"
      [] ClassName(k) = "Watermark" -> "watermark"
      [] OTHER -> "helper"

\* The app of the image model.
ModelApp == "site"

----------------------------------------------------------------------------
(* Paths *)

\* The src.name values the model draws from (file part only).
SrcNames == { <<"sunset", "jpg">>, <<"sunset", "png">>, <<"sunset", "v2", "jpg">> }

\* reform_dir, relative to the media root
ReformDir == "reforms"

\* str of a name kept as parts: the parts joined by dots
RECURSIVE Dotted(_)
Dotted(parts) ==
    IF Len(parts) = 0 THEN ""
    ELSE IF Len(parts) = 1 THEN parts[1]
    ELSE parts[1] \o "." \o Dotted(Tail(parts))

\* pathlib: Path(name).stem drops the last suffix and nothing else
Stem(parts) == IF Len(parts) > 1 THEN SubSeq(parts, 1, Len(parts) - 1) ELSE parts

\* pathlib: Path(a) / b
PathJoin(a, b) == a \o "/" \o b

\* AbstractImage.filename
Filename(src) == Stem(src)

----------------------------------------------------------------------------
(* registry.py *)

\* `klass in class_list` on a Python list of classes: the same class object
InList(klass, class_list) == \E i \in DOMAIN class_list : class_list[i] = klass

\* ClassByModuleRegistry.__contains__: a class of that name is in the app's list
Contains(reg, klass) ==
    /\ AppName(klass) \in DOMAIN reg
    /\ \E i \in DOMAIN reg[AppName(klass)] :
          ClassName(reg[AppName(klass)][i]) = ClassName(klass)

\* register without its membership test: every class is appended.
RegisterRefusesMutant(reg, klass) == FALSE

\* ClassByModuleRegistry.register, the test that raises AlreadyRegistered
RegisterRefuses(reg, klass) ==
    /\ AppName(klass) \in DOMAIN reg
    /\ InList(klass, reg[AppName(klass)])

\* register putting a new class at the head of its app's list.
BaseRegisterMutant(reg, klass) ==
    LET app_name == AppName(klass) IN
    IF app_name \notin DOMAIN reg
    THEN [reg |-> (app_name :> <<klass>>) @@ reg, raised |-> "none"]
    ELSE IF RegisterRefuses(reg, klass)
    THEN [reg |-> reg, raised |-> "AlreadyRegistered"]
    ELSE [reg |-> [reg EXCEPT ![app_name] = <<klass>> \o @], raised |-> "none"]

\* ClassByModuleRegistry.register: the registry afterwards and what was raised
BaseRegister(reg, klass) ==
    LET app_name == AppName(klass) IN
    IF app_name \notin DOMAIN reg
    THEN [reg |-> (app_name :> <<klass>>) @@ reg, raised |-> "none"]
    ELSE IF RegisterRefuses(reg, klass)
    THEN [reg |-> reg, raised |-> "AlreadyRegistered"]
    ELSE [reg |-> [reg EXCEPT ![app_name] = Append(@, klass)], raised |-> "none"]

\* FilterRegistry.register: the loop over the iterable.  A class that is no
\* Filter reaches `filter_class.__path__`, an attribute classes do not have,
\* while the Unregisterable message is being formatted.
RECURSIVE FilterRegister(_, _, _)
FilterRegister(reg, class_or_iterable, i) ==
    IF i > Len(class_or_iterable)
    THEN [reg |-> reg, raised |-> "none"]
    ELSE IF ~IsFilter(class_or_iterable[i])
    THEN [reg |-> reg, raised |-> "AttributeError"]
    ELSE LET r == BaseRegister(reg, class_or_iterable[i]) IN
         IF r.raised # "none" THEN r
         ELSE FilterRegister(r.reg, class_or_iterable, i + 1)

\* ClassByModuleRegistry.value_by_name raises NotRegistered for an unknown app
IsRegistered(reg, app_name) == app_name \in DOMAIN reg

\* ClassByModuleRegistry.__call__ / value_by_name, when it does not raise
ValueByName(reg, app_name) == reg[app_name]

\* FilterRegistry.get_filter: the first class of that name in the app's list,
\* or None
GetFilter(reg, app_name, filter_name) ==
    LET class_list == IF app_name \in DOMAIN reg THEN reg[app_name] ELSE <<>>
        hits == {i \in DOMAIN class_list : ClassName(class_list[i]) = filter_name}
    IN IF hits = {} THEN "None"
       ELSE class_list[CHOOSE i \in hits : \A j \in hits : i <= j]

\* The arguments of one register call: a class, or an iterable of classes
\* (a single class is wrapped in a list by register itself).
RegisterArgs ==
    UNION { [1..n -> Classes] : n \in 1..MaxIterable }

NoCall == [arg |-> <<>>, raised |-> "none"]

\* registry.register(class_or_iterable)
Register(arg) ==
    LET r == FilterRegister(registry, arg, 1) IN
    /\ registry' = r.reg
    /\ regLast' = [arg |-> arg, raised |-> r.raised]
    /\ UNCHANGED <<records, allow, dirs, files, last, blobs, auto, txn, opsVars>>

----------------------------------------------------------------------------
(* models.py: the filters of the image model *)

\* AbstractImage.get_filters, when registry(cls) does not raise: the app's list,
\* narrowed to the allow-list when one is declared
GetFilters(reg, allowed) ==
    LET filters == ValueByName(reg, ModelApp) IN
    IF allowed # {}
    THEN SelectSeq(filters, LAMBDA f : Name(f) \in allowed)
    ELSE filters

----------------------------------------------------------------------------
(* Faults of one run: the sources whose open or process step raises and the *)
(* reform paths whose write raises.                                         *)

\* Most faults injected into one run.
MaxFaults == 1

\* The sets of at most n of the given fault points.
RECURSIVE FaultSets(_, _)
FaultSets(points, n) ==
    IF n = 0 THEN {{}}
    ELSE FaultSets(points, n - 1)
         \cup {F \cup {x} : F \in FaultSets(points, n - 1), x \in points}

\* What a filter writes for a source; `full` is false for a file left by a
\* write that raised.
Content(src, filter_class, full) ==
    [src |-> Dotted(src), flt |-> filter_class, full |-> full]

\* The outcome of a run as it goes: the file system, what was written and
\* removed, the counts, the exception that ended it.
Start(fs, ds) ==
    [files |-> fs, dirs |-> ds, written |-> {}, removed |-> {},
     count |-> 0, ignored |-> 0, fail |-> <<>>, raised |-> "none"]

\* files with path p removed
Without(fs, p) == [q \in DOMAIN fs \ {p} |-> fs[q]]

----------------------------------------------------------------------------
(* models.py: AbstractImage.save *)

\* save without its `first` flag: every filter, the first one too, is sent to
\* the subdirectory named after it.
SaveSubpathMutant(first, reform_file_subpath, reform_base_path, filter_class) ==
    PathJoin(reform_base_path, ClassnameAsPathSegment(filter_class))

\* save, lines 287-288: the first filter keeps the base path, later ones
\* get the subdirectory named after the filter
SaveSubpath(first, reform_file_subpath, reform_base_path, filter_class) ==
    IF ~first
    THEN PathJoin(reform_base_path, ClassnameAsPathSegment(filter_class))
    ELSE reform_file_subpath

\* save, line 272: fname = str(Path(self.filename).stem)
SaveFname(src) == Stem(Filename(src))

\* save, line 295: reform_path
SaveReformPath(reform_file_subpath, fname, filter_class) ==
    PathJoin(reform_file_subpath, Dotted(fname) \o "." \o Format(filter_class))

\* save, lines 285-295: the (subdirectory, path) pairs of the loop, in order
RECURSIVE SaveTargets(_, _, _, _, _, _)
SaveTargets(filters, j, first, reform_file_subpath, reform_base_path, fname) ==
    IF j > Len(filters) THEN <<>>
    ELSE LET sub == SaveSubpath(first, reform_file_subpath, reform_base_path, filters[j])
         IN <<[dir |-> sub, path |-> SaveReformPath(sub, fname, filters[j])]>>
            \o SaveTargets(filters, j + 1, FALSE, sub, reform_base_path, fname)

\* save, lines 286-307: one pass of the loop body
SaveBody(st, src, filter_class, j, target, faults) ==
    LET made == IF j > 1 THEN st.dirs \cup {target.dir} ELSE st.dirs IN
    IF Dotted(src) \in faults
    THEN [st EXCEPT !.dirs = made, !.raised = "ProcessError"]
    ELSE IF target.path \in faults
    THEN [st EXCEPT !.dirs = made,
                    !.files = (target.path :> Content(src, filter_class, FALSE)) @@ @,
                    !.written = @ \cup {target.path},
                    !.raised = "OSError"]
    ELSE [st EXCEPT !.dirs = made,
                    !.files = (target.path :> Content(src, filter_class, TRUE)) @@ @,
                    !.written = @ \cup {target.path},
                    !.count = @ + 1]

RECURSIVE SaveLoop(_, _, _, _, _, _)
SaveLoop(st, src, filters, targets, j, faults) ==
    IF j > Len(filters) \/ st.raised # "none" THEN st
    ELSE SaveLoop(SaveBody(st, src, filters[j], j, targets[j], faults),
                  src, filters, targets, j + 1, faults)

\* save, lines 258-309, after super().save() stored the row
SaveRun(reg, allowed, fs, ds, src, faults) ==
    LET st == Start(fs, ds \cup {ReformDir}) IN
    IF ~IsRegistered(reg, ModelApp)
    THEN [st EXCEPT !.raised = "NotRegistered"]
    ELSE LET got == GetFilters(reg, allowed)
             filters == IF allowed # {}
                        THEN SelectSeq(got, LAMBDA f : Name(f) \in allowed)
                        ELSE got
             targets == SaveTargets(filters, 1, TRUE, ReformDir, ReformDir, SaveFname(src))
         IN SaveLoop(st, src, filters, targets, 1, faults)

----------------------------------------------------------------------------
(* management/commands/reform_create.py: Command.handle *)

\* handle, line 44: src_filename
BulkSrcFilename(src) == Stem(src)

\* handle, lines 53-54
BulkSubpath(first, reform_file_subpath, reform_base_path, filter_class) ==
    IF ~first
    THEN PathJoin(reform_base_path, ClassnameAsPathSegment(filter_class))
    ELSE reform_file_subpath

\* handle, line 58: reform_path
BulkReformPath(reform_file_subpath, src_filename, filter_class) ==
    PathJoin(reform_file_subpath, Dotted(src_filename) \o "." \o Format(filter_class))

\* handle, lines 48-58: the (subdirectory, path) pairs of one image, in order
RECURSIVE BulkTargets(_, _, _, _, _, _)
BulkTargets(filters, j, first, reform_file_subpath, reform_base_path, src_filename) ==
    IF j > Len(filters) THEN <<>>
    ELSE LET sub == BulkSubpath(first, reform_file_subpath, reform_base_path, filters[j])
         IN <<[dir |-> sub, path |-> BulkReformPath(sub, src_filename, filters[j])]>>
            \o BulkTargets(filters, j + 1, FALSE, sub, reform_base_path, src_filename)

\* The inner loop body with count raised before the write instead of after
\* it: a write that fails is counted as created and as failed.
BulkBodyMutant(st, src, filter_class, target, faults) ==
    IF target.path \in DOMAIN st.files
    THEN [st EXCEPT !.ignored = @ + 1]
    ELSE IF Dotted(src) \in faults
    THEN [st EXCEPT !.raised = "ProcessError"]
    ELSE IF target.dir \notin st.dirs
    THEN [st EXCEPT !.raised = "FileNotFoundError"]
    ELSE IF target.path \in faults
    THEN [st EXCEPT !.files = (target.path :> Content(src, filter_class, FALSE)) @@ @,
                    !.written = @ \cup {target.path},
                    !.count = @ + 1,
                    !.fail = Append(@, target.path)]
    ELSE [st EXCEPT !.files = (target.path :> Content(src, filter_class, TRUE)) @@ @,
                    !.written = @ \cup {target.path},
                    !.count = @ + 1]

\* handle, lines 60-80: one pass of the inner loop body
BulkBody(st, src, filter_class, target, faults) ==
    IF target.path \in DOMAIN st.files
    THEN [st EXCEPT !.ignored = @ + 1]
    ELSE IF Dotted(src) \in faults
    THEN [st EXCEPT !.raised = "ProcessError"]
    ELSE IF target.dir \notin st.dirs
    THEN [st EXCEPT !.raised = "FileNotFoundError"]
    ELSE IF target.path \in faults
    THEN [st EXCEPT !.files = (target.path :> Content(src, filter_class, FALSE)) @@ @,
                    !.written = @ \cup {target.path},
                    !.fail = Append(@, target.path)]
    ELSE [st EXCEPT !.files = (target.path :> Content(src, filter_class, TRUE)) @@ @,
                    !.written = @ \cup {target.path},
                    !.count = @ + 1]

RECURSIVE BulkFilterLoop(_, _, _, _, _, _)
BulkFilterLoop(st, src, filters, targets, j, faults) ==
    IF j > Len(filters) \/ st.raised # "none" THEN st
    ELSE BulkFilterLoop(BulkBody(st, src, filters[j], targets[j], faults),
                        src, filters, targets, j + 1, faults)

RECURSIVE BulkImageLoop(_, _, _, _, _)
BulkImageLoop(st, images_qs, i, filters, faults) ==
    IF i > Len(images_qs) \/ st.raised # "none" THEN st
    ELSE LET src == images_qs[i]
             targets == BulkTargets(filters, 1, TRUE, ReformDir, ReformDir,
                                    BulkSrcFilename(src))
         IN BulkImageLoop(BulkFilterLoop(st, src, filters, targets, 1, faults),
                          images_qs, i + 1, filters, faults)

\* handle, lines 83-90: the report joins the failed paths, which are Path
\* objects and not strings
BulkReport(st, verbosity) ==
    IF st.raised = "none" /\ verbosity > 0 /\ Len(st.fail) > 0
    THEN [st EXCEPT !.raised = "TypeError"]
    ELSE st

\* handle, lines 22-90
BulkRun(reg, allowed, fs, ds, images_qs, verbosity, faults) ==
    LET st == Start(fs, ds) IN
    IF ReformDir \notin ds
    THEN [st EXCEPT !.raised = "CommandError"]
    ELSE IF ~IsRegistered(reg, ModelApp)
    THEN [st EXCEPT !.raised = "NotRegistered"]
    ELSE BulkReport(BulkImageLoop(st, images_qs, 1, GetFilters(reg, allowed), faults),
                    verbosity)

----------------------------------------------------------------------------
(* models.py: AbstractImage.delete_file_and_reforms *)

\* delete_file_and_reforms, lines 109-110
DeleteSubpath(first, reform_file_subpath, reform_file_path, filter_class) ==
    IF ~first
    THEN PathJoin(reform_file_path, ClassnameAsPathSegment(filter_class))
    ELSE reform_file_subpath

\* delete_file_and_reforms, line 114: reform_path
DeleteReformPath(reform_file_subpath, fname, filter_class) ==
    PathJoin(reform_file_subpath, Dotted(fname) \o "." \o Format(filter_class))

\* delete_file_and_reforms, lines 104-114: the paths of the loop, in order
RECURSIVE DeleteTargets(_, _, _, _, _, _)
DeleteTargets(filters, j, first, reform_file_subpath, reform_file_path, fname) ==
    IF j > Len(filters) THEN <<>>
    ELSE LET sub == DeleteSubpath(first, reform_file_subpath, reform_file_path, filters[j])
         IN <<[dir |-> sub, path |-> DeleteReformPath(sub, fname, filters[j])]>>
            \o DeleteTargets(filters, j + 1, FALSE, sub, reform_file_path, fname)

\* delete_file_and_reforms, line 115: unlink(missing_ok=True)
RECURSIVE DeleteLoop(_, _, _)
DeleteLoop(st, targets, j) ==
    IF j > Len(targets) THEN st
    ELSE DeleteLoop([st EXCEPT !.files = Without(@, targets[j].path),
                               !.removed = @ \cup {targets[j].path}],
                    targets, j + 1)

\* delete_file_and_reforms, lines 95-115.  reform_dir_path names CommandError,
\* which models.py does not import.
DeleteRun(reg, allowed, fs, ds, src) ==
    LET st == Start(fs, ds) IN
    IF ReformDir \notin ds
    THEN [st EXCEPT !.raised = "NameError"]
    ELSE IF ~IsRegistered(reg, ModelApp)
    THEN [st EXCEPT !.raised = "NotRegistered"]
    ELSE DeleteLoop(st, DeleteTargets(GetFilters(reg, allowed), 1, TRUE,
                                      ReformDir, ReformDir, Filename(src)), 1)

\* delete_file_and_reforms, lines 95-123: the reforms, then the original when
\* auto_delete_upload_file is set; a raise among the reforms ends the call
DeleteFileAndReforms(reg, allowed, fs, ds, bl, auto_delete_upload_file, src) ==
    LET r == DeleteRun(reg, allowed, fs, ds, src) IN
    [run |-> r,
     blobs |-> IF r.raised = "none" /\ auto_delete_upload_file THEN bl \ {src} ELSE bl]

----------------------------------------------------------------------------
(* templatetags/img_tags.py: image_fixed *)

\* image_fixed_tag, lines 124-125: the path under the reform directory
ImageFixedPath(file_name, filter_name, extension) ==
    PathJoin(ReformDir, Dotted(file_name) \o "-" \o filter_name \o "." \o extension)

----------------------------------------------------------------------------
(* The state machine *)

\* Verbosity levels of a management command (Django's default is 1).
Verbosities == {0, 1}

\* The values AbstractImage.filters takes across deployments.
AllowLists == { {}, {"Watermark"} }

\* Registries that register calls at start-up leave behind.
InitRegistries ==
    { <<>>,
      ("site" :> <<T1, W1>>) @@ ("news" :> <<N1>>) }

NoFiles == [p \in {} |-> Content(<<>>, "", TRUE)]

\* No transaction is open: every statement commits by itself.
NoTxn == [open |-> FALSE, saved |-> <<>>, hooks |-> <<>>]

\* No transform has been applied, no stepwise run is under way.
NoPillow == [op |-> "none", from |-> <<0, 0>>, width |-> 0, height |-> 0,
             box |-> <<>>, size |-> <<0, 0>>]

NoRace == [path |-> "", src |-> <<>>, flt |-> "", run |-> <<>>]

OpsIdle == pillow = NoPillow /\ race = NoRace

Idle ==
    [op |-> "none", img |-> <<>>, flt |-> "", written |-> {}, removed |-> {},
     count |-> 0, ignored |-> 0, fail |-> <<>>, raised |-> "none", url |-> "",
     rerun |-> FALSE]

\* What is kept of a finished run `r` of operation `op`; `rerun` says the
\* operation before it was the same one, on the same image, and did not raise.
Outcome(op, img, r, prev) ==
    [op |-> op, img |-> img, flt |-> "", written |-> r.written, removed |-> r.removed,
     count |-> r.count, ignored |-> r.ignored, fail |-> r.fail, raised |-> r.raised,
     url |-> "",
     rerun |-> (prev.op = op /\ prev.img = img /\ prev.raised = "none")]

InRecords(src) == \E i \in DOMAIN records : records[i] = src

Init ==
    /\ registry \in InitRegistries
    /\ regLast = NoCall
    /\ records = <<>>
    /\ allow \in AllowLists
    /\ dirs \in { {}, {ReformDir} }
    /\ files = NoFiles
    /\ last = Idle
    /\ blobs = {}
    /\ auto = FALSE
    /\ txn = NoTxn
    /\ OpsIdle

\* A row stored without save() (bulk_create, loaddata): no reforms are made.
LoadRecord(src) ==
    /\ ~InRecords(src)
    /\ Len(records) < MaxRecords
    /\ records' = Append(records, src)
    /\ blobs' = blobs \cup {src}
    /\ last' = Idle
    /\ UNCHANGED <<registry, regLast, allow, dirs, files, auto, txn, opsVars>>

\* AbstractImage.save: a new upload, or an existing row saved again
Save(src, faults) ==
    /\ InRecords(src) \/ Len(records) < MaxRecords
    /\ \E r \in {SaveRun(registry, allow, files, dirs, src, faults)} :
       /\ records' = IF InRecords(src) THEN records ELSE Append(records, src)
       /\ files' = r.files
       /\ dirs' = r.dirs
       /\ last' = Outcome("save", src, r, last)
    /\ blobs' = blobs \cup {src}
    /\ UNCHANGED <<registry, regLast, allow, auto, txn, opsVars>>

\* manage.py reform_create
ReformCreate(verbosity, faults) ==
    /\ \E r \in {BulkRun(registry, allow, files, dirs, records, verbosity, faults)} :
       /\ files' = r.files
       /\ dirs' = r.dirs
       /\ last' = Outcome("reform_create", <<>>, r, last)
    /\ UNCHANGED <<registry, regLast, records, allow, blobs, auto, txn, opsVars>>

\* A row is deleted: post_delete -> delete_file -> on_commit ->
\* delete_file_and_reforms (run at once under autocommit)
DeleteRecord(src) ==
    /\ InRecords(src)
    /\ ~txn.open
    /\ \E d \in {DeleteFileAndReforms(registry, allow, files, dirs, blobs, auto, src)} :
       /\ records' = SelectSeq(records, LAMBDA x : x # src)
       /\ files' = d.run.files
       /\ dirs' = d.run.dirs
       /\ blobs' = d.blobs
       /\ last' = Outcome("delete", src, d.run, last)
    /\ UNCHANGED <<registry, regLast, allow, auto, txn, opsVars>>

\* The project is deployed with another AbstractImage.filters.
Reconfigure(allowed) ==
    /\ allowed # allow
    /\ allow' = allowed
    /\ last' = [Idle EXCEPT !.op = "reconfigure"]
    /\ UNCHANGED <<registry, regLast, records, dirs, files, blobs, auto, txn, opsVars>>

\* AbstractImage.get_filter, when registry(cls) does not raise: the first class
\* of that name in the app's list, or None
ModelGetFilter(reg, filter_name) ==
    LET class_list == ValueByName(reg, ModelApp)
        hits == {i \in DOMAIN class_list : ClassName(class_list[i]) = filter_name}
    IN IF hits = {} THEN "None"
       ELSE class_list[CHOOSE i \in hits : \A j \in hits : i <= j]

\* {% image_fixed model file_name filter_name %}: the tag is compiled for the
\* file name of src.  An unknown filter name gives None, whose format is read.
ImageFixed(src, filter_name) ==
    /\ LET tag == [Idle EXCEPT !.op = "image_fixed", !.img = src, !.flt = filter_name] IN
       last' = IF ~IsRegistered(registry, ModelApp)
               THEN [tag EXCEPT !.raised = "NotRegistered"]
               ELSE IF ModelGetFilter(registry, filter_name) = "None"
               THEN [tag EXCEPT !.raised = "AttributeError"]
               ELSE [tag EXCEPT !.url =
                        ImageFixedPath(Filename(src), filter_name,
                                       Format(ModelGetFilter(registry, filter_name)))]
    /\ UNCHANGED <<registry, regLast, records, allow, dirs, files,
                   blobs, auto, txn, opsVars>>

FilterNames == {ClassName(k) : k \in Classes}

\* Where a save of src can fail: its source, and the paths it writes.
SaveFaultPoints(src) ==
    {Dotted(src)}
    \cup (IF IsRegistered(registry, ModelApp)
          THEN LET t == SaveTargets(GetFilters(registry, allow), 1, TRUE,
                                    ReformDir, ReformDir, SaveFname(src))
               IN {t[j].path : j \in DOMAIN t}
          ELSE {})

\* The paths a bulk run finds missing for a row, which it goes on to fill.
BulkMissing(src) ==
    IF IsRegistered(registry, ModelApp)
    THEN LET t == BulkTargets(GetFilters(registry, allow), 1, TRUE,
                              ReformDir, ReformDir, BulkSrcFilename(src))
         IN {t[j].path : j \in DOMAIN t} \ DOMAIN files
    ELSE {}

\* Where a bulk run can fail: the sources it opens, and the paths it writes.
BulkFaultPoints ==
    {Dotted(records[i]) : i \in {j \in DOMAIN records : BulkMissing(records[j]) # {}}}
    \cup UNION {BulkMissing(records[i]) : i \in DOMAIN records}

Next ==
    \/ \E src \in SrcNames : LoadRecord(src)
    \/ \E src \in SrcNames : \E faults \in FaultSets(SaveFaultPoints(src), MaxFaults) :
          Save(src, faults)
    \/ \E verbosity \in Verbosities, faults \in FaultSets(BulkFaultPoints, MaxFaults) :
          ReformCreate(verbosity, faults)
    \/ \E src \in SrcNames : DeleteRecord(src)

Spec == Init /\ [][Next]_vars

\* The registry alone, filled by register calls from empty.
InitRegistry ==
    /\ registry = <<>>
    /\ regLast = NoCall
    /\ records = <<>>
    /\ allow = {}
    /\ dirs = {}
    /\ files = NoFiles
    /\ last = Idle
    /\ blobs = {}
    /\ auto = FALSE
    /\ txn = NoTxn
    /\ OpsIdle

NextRegistry == \E arg \in RegisterArgs : Register(arg)

SpecRegistry == InitRegistry /\ [][NextRegistry]_vars

\* The lists of one app that register calls can build: no class twice.
RegisteredLists(app_name) ==
    LET ks == {k \in Classes : IsFilter(k) /\ AppName(k) = app_name} IN
    {l \in UNION {[1..n -> ks] : n \in 1..Cardinality(ks)} :
        \A i, j \in DOMAIN l : i # j => l[i] # l[j]}

\* Template rendering and redeployment, over any registry that start-up built.
InitLookup ==
    /\ registry \in {<<>>} \cup {("site" :> l) : l \in RegisteredLists("site")}
                         \cup {("site" :> l) @@ ("news" :> <<N1>>) :
                                  l \in RegisteredLists("site")}
    /\ regLast = NoCall
    /\ records = <<>>
    /\ allow \in AllowLists
    /\ dirs = {}
    /\ files = NoFiles
    /\ last = Idle
    /\ blobs = {}
    /\ auto = FALSE
    /\ txn = NoTxn
    /\ OpsIdle

NextLookup ==
    \/ \E allowed \in AllowLists : Reconfigure(allowed)
    \/ \E src \in SrcNames, filter_name \in FilterNames : ImageFixed(src, filter_name)

SpecLookup == InitLookup /\ [][NextLookup]_vars

----------------------------------------------------------------------------
(* Deletion of rows inside a transaction: post_delete -> delete_file ->    *)
(* transaction.on_commit                                                    *)

\* transaction.atomic() is entered
Begin ==
    /\ ~txn.open
    /\ txn' = [open |-> TRUE, saved |-> records, hooks |-> <<>>]
    /\ last' = [Idle EXCEPT !.op = "begin"]
    /\ UNCHANGED <<registry, regLast, records, allow, dirs, files, blobs, auto, opsVars>>

\* A row is deleted inside the transaction: post_delete calls delete_file,
\* which hands delete_file_and_reforms to on_commit and touches no file
TxnDelete(src) ==
    /\ txn.open
    /\ InRecords(src)
    /\ Len(txn.hooks) < MaxRecords
    /\ records' = SelectSeq(records, LAMBDA x : x # src)
    /\ txn' = [txn EXCEPT !.hooks = Append(@, src)]
    /\ last' = [Idle EXCEPT !.op = "txn_delete", !.img = src]
    /\ UNCHANGED <<registry, regLast, allow, dirs, files, blobs, auto, opsVars>>

\* The hooks of a committed transaction, run in the order they were handed
\* over; a hook that raises ends the run and the hooks after it are dropped
RECURSIVE RunCommitHooks(_, _, _, _, _, _)
RunCommitHooks(reg, allowed, auto_delete_upload_file, st, hooks, i) ==
    IF i > Len(hooks) \/ st.run.raised # "none" THEN st
    ELSE LET d == DeleteFileAndReforms(reg, allowed, st.run.files, st.run.dirs,
                                       st.blobs, auto_delete_upload_file, hooks[i])
         IN RunCommitHooks(reg, allowed, auto_delete_upload_file,
                           [run |-> [d.run EXCEPT !.removed = @ \cup st.run.removed],
                            blobs |-> d.blobs],
                           hooks, i + 1)

\* The transaction commits: the rows stay deleted and the hooks run
Commit ==
    /\ txn.open
    /\ \E r \in {RunCommitHooks(registry, allow, auto,
                                [run |-> Start(files, dirs), blobs |-> blobs],
                                txn.hooks, 1)} :
       /\ files' = r.run.files
       /\ blobs' = r.blobs
       /\ last' = Outcome("commit", <<>>, r.run, last)
    /\ txn' = NoTxn
    /\ UNCHANGED <<registry, regLast, records, allow, dirs, auto, opsVars>>

\* The transaction fails: the rows are back and the hooks are discarded
Rollback ==
    /\ txn.open
    /\ records' = txn.saved
    /\ txn' = NoTxn
    /\ last' = [Idle EXCEPT !.op = "rollback"]
    /\ UNCHANGED <<registry, regLast, allow, dirs, files, blobs, auto, opsVars>>

InitTxn ==
    /\ registry \in InitRegistries
    /\ regLast = NoCall
    /\ records = <<>>
    /\ allow \in AllowLists
    /\ dirs \in { {}, {ReformDir} }
    /\ files = NoFiles
    /\ last = Idle
    /\ blobs = {}
    /\ auto \in BOOLEAN
    /\ txn = NoTxn
    /\ OpsIdle

NextTxn ==
    \/ \E src \in SrcNames : LoadRecord(src)
    \/ \E src \in SrcNames : ~txn.open /\ Save(src, {})
    \/ \E src \in SrcNames : DeleteRecord(src)
    \/ Begin
    \/ \E src \in SrcNames : TxnDelete(src)
    \/ Commit
    \/ Rollback

SpecTxn == InitTxn /\ [][NextTxn]_vars

----------------------------------------------------------------------------
(* image_ops_pillow.py: sizes in pixels; an image is known by its size *)

\* Largest width and height of a source image and of a target box.
MaxDim == 5

Dims == 1..MaxDim

\* resize_aspect: the size handed to pillow.resize, which is the size of the
\* image returned.  math.floor of the quotient is the integer quotient for
\* sizes in this range.
ResizeAspectSize(size, width, height) ==
    LET current_width == size[1]
        current_height == size[2]
        width_diff == width - current_width
        height_diff == height - current_height
    IN IF height_diff > width_diff
       THEN LET h == (width * current_height) \div current_width
            IN <<width, IF h <= 0 THEN 5 ELSE h>>
       ELSE IF height_diff < width_diff
       THEN LET w == (height * current_width) \div current_height
            IN <<IF w <= 0 THEN 5 ELSE w, height>>
       ELSE <<width, height>>

\* crop, lines 110-122: the box handed to pillow.crop, or <<>> when the image
\* is returned as it came
CropBox(size, width, height) ==
    LET current_width == size[1]
        current_height == size[2]
        width_reduce == current_width - width
        height_reduce == current_height - height
    IN IF width_reduce > 0 \/ height_reduce > 0
       THEN LET x == IF width_reduce > 0 THEN width_reduce \div 2 ELSE 0
                y == IF height_reduce > 0 THEN height_reduce \div 2 ELSE 0
            IN <<x, y, x + width, y + height>>
       ELSE <<>>

\* crop, lines 122-123: pillow.crop returns an image the size of its box,
\* also where the box reaches past the image
CropSize(size, width, height) ==
    LET box == CropBox(size, width, height) IN
    IF box = <<>> THEN size ELSE <<box[3] - box[1], box[4] - box[2]>>

\* An image of some size is opened
OpenImage(size) ==
    /\ pillow' = [NoPillow EXCEPT !.op = "open", !.size = size]
    /\ UNCHANGED <<registry, regLast, records, allow, dirs, files, last,
                   blobs, auto, txn, race>>

\* resize_aspect(pillow, width, height)
ResizeAspect(width, height) ==
    /\ pillow.size[1] \in Dims /\ pillow.size[2] \in Dims
    /\ pillow' = [op |-> "resize_aspect", from |-> pillow.size,
                  width |-> width, height |-> height, box |-> <<>>,
                  size |-> ResizeAspectSize(pillow.size, width, height)]
    /\ UNCHANGED <<registry, regLast, records, allow, dirs, files, last,
                   blobs, auto, txn, race>>

\* crop(pillow, width, height)
Crop(width, height) ==
    /\ pillow.size[1] \in Dims /\ pillow.size[2] \in Dims
    /\ pillow' = [op |-> "crop", from |-> pillow.size,
                  width |-> width, height |-> height,
                  box |-> CropBox(pillow.size, width, height),
                  size |-> CropSize(pillow.size, width, height)]
    /\ UNCHANGED <<registry, regLast, records, allow, dirs, files, last,
                   blobs, auto, txn, race>>

InitOps ==
    /\ registry = <<>>
    /\ regLast = NoCall
    /\ records = <<>>
    /\ allow = {}
    /\ dirs = {}
    /\ files = NoFiles
    /\ last = Idle
    /\ blobs = {}
    /\ auto = FALSE
    /\ txn = NoTxn
    /\ \E size \in Dims \X Dims : pillow = [NoPillow EXCEPT !.op = "open", !.size = size]
    /\ race = NoRace

NextOps ==
    \/ \E size \in Dims \X Dims : OpenImage(size)
    \/ \E width \in Dims, height \in Dims : ResizeAspect(width, height)
    \/ \E width \in Dims, height \in Dims : Crop(width, height)

SpecOps == InitOps /\ [][NextOps]_vars

----------------------------------------------------------------------------
(* Two generation runs at work on one target path, each a step at a time:   *)
(* reform_create.py lines 60-80 and models.py lines 297-307                 *)

Runs == {"A", "B"}

\* A run is one target of a save or of a reform_create.
RunKinds == {"save", "reform_create"}

\* The path each kind of run derives for position j of the filter list.
RacePath(kind, src, filters, j) ==
    IF kind = "save"
    THEN SaveTargets(filters, 1, TRUE, ReformDir, ReformDir, SaveFname(src))[j].path
    ELSE BulkTargets(filters, 1, TRUE, ReformDir, ReformDir, BulkSrcFilename(src))[j].path

\* Where a run of each kind starts on a target: reform_create with its
\* existence test, save with the filter
RaceStart(kind) ==
    [kind |-> kind, pc |-> IF kind = "save" THEN "process" ELSE "exists",
     count |-> 0, ignored |-> 0]

RaceUnchanged ==
    UNCHANGED <<registry, regLast, records, allow, dirs, last, blobs, auto, txn, pillow>>

\* reform_create, lines 61-63: reform_path.exists()
RaceExists(r) ==
    /\ race.run[r].pc = "exists"
    /\ race' = IF race.path \in DOMAIN files
               THEN [race EXCEPT !.run[r].ignored = @ + 1, !.run[r].pc = "done"]
               ELSE [race EXCEPT !.run[r].pc = "process"]
    /\ UNCHANGED files
    /\ RaceUnchanged

\* reform_create, lines 66-72; save, lines 298-304: the filter is run on the source
RaceProcess(r) ==
    /\ race.run[r].pc = "process"
    /\ race' = [race EXCEPT !.run[r].pc = "open"]
    /\ UNCHANGED files
    /\ RaceUnchanged

\* reform_create, line 75; save, line 306: open(reform_path, "wb") creates the
\* file, or empties the one that is there
RaceOpen(r) ==
    /\ race.run[r].pc = "open"
    /\ files' = (race.path :> Content(race.src, race.flt, FALSE)) @@ files
    /\ race' = [race EXCEPT !.run[r].pc = "write"]
    /\ RaceUnchanged

\* reform_create, lines 77-78; save, line 307: f.write(reform_buff.getbuffer())
RaceWrite(r) ==
    /\ race.run[r].pc = "write"
    /\ files' = (race.path :> Content(race.src, race.flt, TRUE)) @@ files
    /\ race' = [race EXCEPT !.run[r].count = @ + 1, !.run[r].pc = "close"]
    /\ RaceUnchanged

\* the with block is left and the file closed
RaceClose(r) ==
    /\ race.run[r].pc = "close"
    /\ race' = [race EXCEPT !.run[r].pc = "done"]
    /\ UNCHANGED files
    /\ RaceUnchanged

\* Both runs are about to work on the same path for a stored row; every
\* directory is there from an earlier save.
InitRace ==
    /\ registry = ("site" :> <<T1, W1>>) @@ ("news" :> <<N1>>)
    /\ regLast = NoCall
    /\ allow = {}
    /\ dirs = {ReformDir, PathJoin(ReformDir, ClassnameAsPathSegment(W1))}
    /\ files = NoFiles
    /\ last = Idle
    /\ auto = FALSE
    /\ txn = NoTxn
    /\ pillow = NoPillow
    /\ \E src \in SrcNames, j \in 1..2 :
          LET filters == GetFilters(registry, allow)
              path == RacePath("reform_create", src, filters, j)
          IN /\ records = <<src>>
             /\ blobs = {src}
             /\ \E kinds \in [Runs -> {k \in RunKinds : RacePath(k, src, filters, j) = path}] :
                   race = [path |-> path, src |-> src, flt |-> filters[j],
                           run |-> [r \in Runs |-> RaceStart(kinds[r])]]

NextRace ==
    \E r \in Runs :
        \/ RaceExists(r)
        \/ RaceProcess(r)
        \/ RaceOpen(r)
        \/ RaceWrite(r)
        \/ RaceClose(r)

SpecRace == InitRace /\ [][NextRace]_vars

----------------------------------------------------------------------------
(* Properties *)

\* The operations that generate reforms.
Gen == {"save", "reform_create"}

\* The filters of the image model in this state.
ModelFilters ==
    IF IsRegistered(registry, ModelApp) THEN GetFilters(registry, allow) ELSE <<>>

\* The paths save, reform_create and delete derive for a source.
SavePaths(src, filters) ==
    LET t == SaveTargets(filters, 1, TRUE, ReformDir, ReformDir, SaveFname(src))
    IN [j \in DOMAIN t |-> t[j].path]

BulkPaths(src, filters) ==
    LET t == BulkTargets(filters, 1, TRUE, ReformDir, ReformDir, BulkSrcFilename(src))
    IN [j \in DOMAIN t |-> t[j].path]

DeletePaths(src, filters) ==
    LET t == DeleteTargets(filters, 1, TRUE, ReformDir, ReformDir, Filename(src))
    IN [j \in DOMAIN t |-> t[j].path]

\* Every path under the reform directory whose file name has the stem of src.
StemPaths(src) ==
    {PathJoin(d, Dotted(Stem(src)) \o "." \o Format(k)) :
        d \in {ReformDir} \cup {PathJoin(ReformDir, ClassnameAsPathSegment(c)) : c \in Classes},
        k \in Classes}

\* C1: a generation run (save or reform_create) writes to no path that existed
\* when it started, and leaves the content of every such file as it was.
C1_ExistingUntouched ==
    [][ last'.op \in Gen =>
          \A p \in DOMAIN files :
             /\ p \notin last'.written
             /\ p \in DOMAIN files'
             /\ files'[p] = files[p] ]_vars

\* C2: a generation run that directly follows the same run on the same image
\* writes nothing, creates nothing and, in bulk, ignores every (row, filter).
C2_SecondRunIdle ==
    (last.op \in Gen /\ last.rerun) =>
        /\ last.written = {}
        /\ last.count = 0
        /\ last.op = "reform_create" => last.ignored = Len(records) * Len(ModelFilters)

\* C3: for every row and every filter, save and reform_create derive the same
\* target path.
C3_SameTargets ==
    \A i \in DOMAIN records :
        SavePaths(records[i], ModelFilters) = BulkPaths(records[i], ModelFilters)

\* The paths the generation run just finished wrote for an image.
GeneratedFor(src) ==
    IF last.op = "save" /\ last.img = src THEN last.written
    ELSE IF last.op = "reform_create"
    THEN {p \in last.written : files[p].src = Dotted(src)}
    ELSE {}

\* C4: when the deletion of an image directly follows a generation run that did
\* not raise, every path that run wrote for the image is gone afterwards, and
\* so is every file under the reform directory that carries the image's stem.
C4_ReapRemovesGenerated ==
    [][ (last.op \in Gen /\ last.raised = "none"
         /\ last'.op = "delete" /\ last'.raised = "none") =>
          /\ \A p \in GeneratedFor(last'.img) : p \notin DOMAIN files'
          /\ \A p \in StemPaths(last'.img) : p \notin DOMAIN files' ]_vars

\* C5: a generation run is never ended by a failure of a process step or of a
\* write: such a failure is recorded and the run goes on to its report.
C5_FailuresAreCaught ==
    last.op \in Gen =>
        last.raised \notin {"ProcessError", "OSError", "FileNotFoundError", "TypeError"}

\* The placement rule in closed form: position 1 of the list is flat, every
\* later position is in the subdirectory named after the filter.
PlacedPath(filters, j, stem) ==
    IF j = 1
    THEN ReformDir \o "/" \o Dotted(stem) \o "." \o Format(filters[j])
    ELSE ReformDir \o "/" \o ClassnameAsPathSegment(filters[j]) \o "/"
         \o Dotted(stem) \o "." \o Format(filters[j])

C7_Injective ==
    \A i1, i2 \in DOMAIN records : \A j1, j2 \in DOMAIN ModelFilters :
        <<i1, j1>> # <<i2, j2>> =>
           /\ SavePaths(records[i1], ModelFilters)[j1]
                 # SavePaths(records[i2], ModelFilters)[j2]
           /\ BulkPaths(records[i1], ModelFilters)[j1]
                 # BulkPaths(records[i2], ModelFilters)[j2]

\* C8: the path image_fixed builds for a file name and a filter is the path
\* generation writes, and the path deletion removes, for that file and filter.
C8_OneConvention ==
    (last.op = "image_fixed" /\ last.raised = "none") =>
        \A j \in DOMAIN ModelFilters :
            Name(ModelFilters[j]) = last.flt =>
               /\ last.url = SavePaths(last.img, ModelFilters)[j]
               /\ last.url = BulkPaths(last.img, ModelFilters)[j]
               /\ last.url = DeletePaths(last.img, ModelFilters)[j]

C10_UniqueNames ==
    \A app_name \in DOMAIN registry :
        \A i, j \in DOMAIN registry[app_name] :
            i # j => ClassName(registry[app_name][i]) # ClassName(registry[app_name][j])

\* C11: a register call that reaches a value that is no Filter (alone or as a
\* member of an iterable) raises Unregisterable, and no such value is ever in
\* the registry.
C11_Unregisterable ==
    /\ \A i \in DOMAIN regLast.arg :
          (~IsFilter(regLast.arg[i]) /\ regLast.raised # "AlreadyRegistered")
             => regLast.raised = "Unregisterable"
    /\ \A app_name \in DOMAIN registry :
          \A i \in DOMAIN registry[app_name] : IsFilter(registry[app_name][i])

\* registry(klass) for every app, with the empty list for an app not yet known
Lookup(reg, app_name) == IF app_name \in DOMAIN reg THEN reg[app_name] ELSE <<>>

\* g holds members of l in the order l holds them: g is l with members left out
RECURSIVE InOrder(_, _)
InOrder(g, l) ==
    IF g = <<>> THEN TRUE
    ELSE IF l = <<>> THEN FALSE
    ELSE IF Head(g) = Head(l) THEN InOrder(Tail(g), Tail(l))
    ELSE InOrder(g, Tail(l))

\* C12: each register call appends to each app's list the members it
\* registered (those before the one that raised, all if none did), in the
\* order of the call, and changes nothing else; so a list is the successful
\* registrations in order.  Narrowed by any allow-list, the model's filters are
\* the listed filters with an allowed name, in the order of the list.
C12_RegistrationOrder ==
    /\ [][ LET arg == regLast'.arg IN
           \E n \in 0..Len(arg) :
              /\ (regLast'.raised = "none") <=> (n = Len(arg))
              /\ DOMAIN registry' = DOMAIN registry \cup {AppName(arg[i]) : i \in 1..n}
              /\ \A app_name \in DOMAIN registry' :
                    registry'[app_name]
                       = Lookup(registry, app_name)
                         \o SelectSeq(SubSeq(arg, 1, n), LAMBDA k : AppName(k) = app_name)
         ]_vars
    /\ [](IsRegistered(registry, ModelApp) =>
              \A allowed \in SUBSET FilterNames :
                 LET l == registry[ModelApp]
                     g == GetFilters(registry, allowed)
                 IN /\ InOrder(g, l)
                    /\ \A i \in DOMAIN l :
                          (allowed = {} \/ Name(l[i]) \in allowed) <=> InList(l[i], g))

\* C12 witness: three calls, the last one an iterable that registered its first
\* member and was refused at its second, left the list in call order.
C12_Witness ==
    /\ regLast.arg = <<T2, T1>>
    /\ regLast.raised = "AlreadyRegistered"
    /\ IsRegistered(registry, ModelApp)
    /\ registry[ModelApp] = <<W1, T1, T2>>
    /\ GetFilters(registry, {"Thumbnail"}) = <<T1, T2>>

\* C13: the deletion of a row does not fail over a reform that is missing, and
\* removes the reform path of every filter in the app's full registered list,
\* whatever allow-list the model declares.
C13_ReapFullList ==
    last.op = "delete" =>
        /\ (ReformDir \in dirs /\ IsRegistered(registry, ModelApp)) => last.raised = "none"
        /\ last.raised = "none" =>
              LET full == DeletePaths(last.img, ValueByName(registry, ModelApp)) IN
              \A j \in DOMAIN full :
                  /\ full[j] \in last.removed
                  /\ full[j] \notin DOMAIN files

\* C14: while a transaction is open no original is deleted; a transaction that
\* fails deletes none; after a commit the original of every row deleted in the
\* transaction is gone if and only if auto_delete_upload_file is set, however
\* the removal of its reforms ended.
C14_BlobAfterCommit ==
    [][ /\ txn'.open => blobs \subseteq blobs'
        /\ (txn.open /\ last'.op = "rollback") => blobs \subseteq blobs'
        /\ (txn.open /\ last'.op = "commit") =>
              \A i \in DOMAIN txn.hooks :
                  txn.hooks[i] \in blobs => (txn.hooks[i] \notin blobs' <=> auto) ]_vars

\* C15: for a source (w,h) and a target (W,H), all positive, the image
\* resize_aspect returns is no wider than W and no higher than H; it is
\* exactly (W,H) when H-h = W-w; and a computed dimension of 0 or less is
\* replaced by 5.
C15_ResizeAspectFits ==
    pillow.op = "resize_aspect" =>
        LET w == pillow.from[1]
            h == pillow.from[2]
            W == pillow.width
            H == pillow.height
        IN /\ pillow.size[1] <= W
           /\ pillow.size[2] <= H
           /\ (H - h = W - w) => pillow.size = <<W, H>>
           /\ (H - h > W - w /\ (W * h) \div w <= 0) => pillow.size = <<W, 5>>
           /\ (H - h < W - w /\ (H * w) \div h <= 0) => pillow.size = <<5, H>>

\* C16: resize_aspect returns an image that already fits the target
\* (w <= W and h <= H) at its own size (w,h).
C16_NoUpsize ==
    (/\ pillow.op = "resize_aspect"
     /\ pillow.from[1] <= pillow.width
     /\ pillow.from[2] <= pillow.height) => pillow.size = pillow.from

\* The smaller of two numbers.
Min(a, b) == IF a <= b THEN a ELSE b

\* C17: crop returns the image as it came when w <= W and h <= H; otherwise
\* the result is (min(w,W), min(h,H)) in size, cut at the offset
\* floor((current - target) / 2) on an axis that is cropped and 0 on one that
\* is not.
C17_CropSize ==
    pillow.op = "crop" =>
        LET w == pillow.from[1]
            h == pillow.from[2]
            W == pillow.width
            H == pillow.height
        IN IF w <= W /\ h <= H
           THEN pillow.box = <<>> /\ pillow.size = pillow.from
           ELSE /\ pillow.size = <<Min(w, W), Min(h, H)>>
                /\ pillow.box[1] = (IF w > W THEN (w - W) \div 2 ELSE 0)
                /\ pillow.box[2] = (IF h > H THEN (h - H) \div 2 ELSE 0)

\* The (subdirectory, path) pairs the generation run just finished worked on.
RunTargets ==
    IF last.op = "save"
    THEN LET t == SaveTargets(ModelFilters, 1, TRUE, ReformDir, ReformDir,
                              SaveFname(last.img))
         IN {t[j] : j \in DOMAIN t}
    ELSE UNION { LET t == BulkTargets(ModelFilters, 1, TRUE, ReformDir, ReformDir,
                                      BulkSrcFilename(records[i]))
                 IN {t[j] : j \in DOMAIN t} : i \in DOMAIN records }

\* C18: a generation run (save or reform_create) never comes to write a
\* reform into a directory that does not exist, whether or not the filter's
\* subdirectory was made before: every file it wrote is in an existing
\* directory and no write stopped the run for want of one.
C18_DirsEnsured ==
    last.op \in Gen =>
        /\ last.raised # "FileNotFoundError"
        /\ \A t \in RunTargets : t.path \in last.written => t.dir \in dirs

\* C20: after a reform_create run, also one in which a write failed, every
\* file the run left at a target path holds a complete filter output.
C20_NoPartialFiles ==
    last.op = "reform_create" =>
        \A p \in last.written : p \in DOMAIN files /\ files[p].full

\* C19: however the steps of two generation runs on one target path
\* interleave, a run counts the target as ignored-as-existing only when the
\* file there holds a complete filter output, and once both runs are through
\* the file at the path holds one complete output.
C19_OneWinner ==
    [][ /\ \A r \in Runs :
              race'.run[r].ignored > race.run[r].ignored =>
                 (race.path \in DOMAIN files /\ files[race.path].full)
        /\ (\A r \in Runs : race'.run[r].pc = "done") =>
              (race.path \in DOMAIN files' /\ files'[race.path].full) ]_vars

\* C21: when a reform_create run comes to its report (both loops ran to their
\* end), created + ignored + failed is the number of rows times the number of
\* filters of the run, and the paths it wrote are the created and the failed
\* ones, each once.
C21_CountsAddUp ==
    (last.op = "reform_create" /\ last.raised \in {"none", "TypeError"}) =>
        /\ last.count + last.ignored + Len(last.fail)
              = Len(records) * Len(ModelFilters)
        /\ Cardinality(last.written) = last.count + Len(last.fail)
        /\ \A i, j \in DOMAIN last.fail : i # j => last.fail[i] # last.fail[j]

\* C21 witness: a run came to its report having created a reform, ignored
\* one that existed and failed to write one.
C21_Witness ==
    /\ last.op = "reform_create"
    /\ last.raised \in {"none", "TypeError"}
    /\ last.count > 0
    /\ last.ignored > 0
    /\ Len(last.fail) > 0

====
